---- MODULE Spec2Model ----
(***************************************************************************)
(* Authentication backend of app-flask: registration, login and the        *)
(* protected profile route, in its two implementations:                    *)
(*   "be"  - src/be: sqlite3 accessed directly, PyJWT, require_auth        *)
(*   "orm" - src/app: Flask-SQLAlchemy, flask_jwt_extended, jwt_required   *)
(* Strings are sequences of one-character strings.  Time is counted in     *)
(* hours (the unit of JWT_ACCESS_TOKEN_EXPIRES_HOURS).                     *)
(***************************************************************************)
EXTENDS Integers, Sequences, FiniteSets, TLC

VARIABLES
    variant,    \* which implementation serves the requests: "be" or "orm"
    envHours,   \* environment variable JWT_ACCESS_TOKEN_EXPIRES_HOURS (be), a set: empty when unset
    users,      \* the rows of table users
    now,        \* the clock (datetime.utcnow()), in hours
    req,        \* per worker: the request it handles, its position and its response
    issued,     \* every token handed out in a response, with its issue time
    returned201, \* emails for which a register call has already returned 201
    boot        \* the application process: its environment, the configuration asked for, how far start-up got

vars == <<variant, envHours, users, now, req, issued, returned201, boot>>

----------------------------------------------------------------------------
(* Bounds of the model *)

\* tokens handed out in one run
MaxIssued == 1

Procs == {"w1", "w2"}

\* the instants the clock is read at, in hours
Times == {0, 1, 24, 25}

\* "no row": what fetchone() / first() / get() give when nothing matches
NoUser == [id |-> 0]

\* "no token" in a response or a header field
NoToken == [alg |-> "absent"]

----------------------------------------------------------------------------
(* Characters and strings *)

UpperSeq == <<"A","B","C","D","E","F","G","H","I","J","K","L","M",
              "N","O","P","Q","R","S","T","U","V","W","X","Y","Z">>

LowerSeq == <<"a","b","c","d","e","f","g","h","i","j","k","l","m",
              "n","o","p","q","r","s","t","u","v","w","x","y","z">>

Upper == {UpperSeq[i] : i \in 1..26}

Lower == {LowerSeq[i] : i \in 1..26}

Digits == {"0","1","2","3","4","5","6","7","8","9"}

Whitespace == {" ", "\n", "\t"}

\* str.lower() on one character
LowerChar(c) ==
    IF c \in Upper THEN LowerSeq[CHOOSE i \in 1..26 : UpperSeq[i] = c] ELSE c

\* a lower() that leaves the string as it is
StrLower_identity(s) == s

\* str.lower()
StrLower(s) == [i \in 1..Len(s) |-> LowerChar(s[i])]

\* str.strip(): drops leading and trailing whitespace
StrStrip(s) ==
    LET keep == {i \in 1..Len(s) : s[i] \notin Whitespace}
    IN  IF keep = {} THEN <<>>
        ELSE LET lo == CHOOSE i \in keep : \A j \in keep : i <= j
                 hi == CHOOSE i \in keep : \A j \in keep : j <= i
             IN  SubSeq(s, lo, hi)

\* re.match(r'^[a-zA-Z0-9._%+-]+@[a-zA-Z0-9.-]+\.[a-zA-Z]{2,}$', email):
\* `$` also matches just before one trailing newline.
EmailLocalChars == Upper \cup Lower \cup Digits \cup {".", "_", "%", "+", "-"}

EmailDomainChars == Upper \cup Lower \cup Digits \cup {".", "-"}

EmailBodyMatches(s) ==
    \E at \in 2..Len(s) :
        /\ s[at] = "@"
        /\ \A k \in 1..(at - 1) : s[k] \in EmailLocalChars
        /\ \E dot \in (at + 2)..Len(s) :
              /\ s[dot] = "."
              /\ \A k \in (at + 1)..(dot - 1) : s[k] \in EmailDomainChars
              /\ Len(s) - dot >= 2
              /\ \A k \in (dot + 1)..Len(s) : s[k] \in Upper \cup Lower

validate_email(email) ==
    \/ EmailBodyMatches(email)
    \/ /\ Len(email) >= 1
       /\ email[Len(email)] = "\n"
       /\ EmailBodyMatches(SubSeq(email, 1, Len(email) - 1))

\* a password check without the upper-case rule
validate_password_no_upper(password) ==
    /\ Len(password) >= 8
    /\ \E i \in 1..Len(password) : password[i] \in Lower
    /\ \E i \in 1..Len(password) : password[i] \in Digits

validate_password(password) ==
    /\ Len(password) >= 8
    /\ \E i \in 1..Len(password) : password[i] \in Upper
    /\ \E i \in 1..Len(password) : password[i] \in Lower
    /\ \E i \in 1..Len(password) : password[i] \in Digits

\* validate_username(username): 3 to 30 characters, then
\* re.match(r'^[a-zA-Z0-9_]+$', username), whose `$` also matches just
\* before one trailing newline.  register does not call it.
validate_username(username) ==
    /\ Len(username) >= 3
    /\ Len(username) <= 30
    /\ \/ \A i \in 1..Len(username) :
             username[i] \in Upper \cup Lower \cup Digits \cup {"_"}
       \/ /\ username[Len(username)] = "\n"
          /\ \A i \in 1..(Len(username) - 1) :
                username[i] \in Upper \cup Lower \cup Digits \cup {"_"}

----------------------------------------------------------------------------
(* Configuration *)

\* Config.JWT_ACCESS_TOKEN_EXPIRES_HOURS default (be), timedelta(hours=24) (orm)
DefaultExpiresHours == 24

\* what the deployment may give JWT_ACCESS_TOKEN_EXPIRES_HOURS: nothing, or "1"
EnvHoursChoices == {{}, {1}}

\* Config.JWT_ACCESS_TOKEN_EXPIRES
JWT_ACCESS_TOKEN_EXPIRES ==
    IF variant = "be"
    THEN (IF envHours = {} THEN DefaultExpiresHours
          ELSE CHOOSE h \in envHours : TRUE)
    ELSE DefaultExpiresHours

\* Config.JWT_SECRET_KEY: the server-held signing secret
JWT_SECRET_KEY == "server-key"

----------------------------------------------------------------------------
(* Start-up.  boot.config is the configuration create_app is given: "base" is *)
(* Config itself (be/app.py), the others are the keys of the `config`         *)
(* dictionary; boot.instance tells whether the be factory is handed an         *)
(* object of the class instead of the class.  An environment variable is a    *)
(* set: empty when unset, else holding its value.                              *)

ConfigNames == {"default", "development", "production", "testing"}

\* what the deployment may give SECRET_KEY and JWT_SECRET_KEY: nothing, the
\* empty string, a value
EnvSecretChoices == {{}, {""}, {"env-secret"}}

\* os.environ.get(NAME) or default
EnvOr(env, default) ==
    IF env = {} \/ env = {""} THEN default ELSE CHOOSE v \in env : TRUE

\* Config.SECRET_KEY, evaluated when the class body runs
Config_SECRET_KEY(b) ==
    EnvOr(b.env_SECRET_KEY, "dev-secret-key-change-in-production")

\* Config.JWT_SECRET_KEY, evaluated when the class body runs:
\* be falls back to its own literal, orm to SECRET_KEY
Config_JWT_SECRET_KEY(b) ==
    EnvOr(b.env_JWT_SECRET_KEY,
          IF variant = "be" THEN "jwt-secret-key-change-in-production"
          ELSE Config_SECRET_KEY(b))

\* be ProductionConfig.__init__ raises ValueError when either variable is
\* unset or empty; it runs only when an object of the class is made
ProductionConfig_init_raises(b) ==
    /\ variant = "be"
    /\ b.config = "production"
    /\ b.instance
    /\ \/ b.env_SECRET_KEY \subseteq {""}
       \/ b.env_JWT_SECRET_KEY \subseteq {""}

\* create_app: app.config.from_object(...) copies the upper-case attributes
\* of the class (or object) it is given; ProductionConfig defines no secret
\* of its own at class level, so the class hands on what Config computed.
\* The be factory ends by running init_db() (be/app/__init__.py 67-71).
create_app ==
    /\ boot.state = "starting"
    /\ boot' = IF ProductionConfig_init_raises(boot)
               THEN [boot EXCEPT !.state = "failed"]
               ELSE [boot EXCEPT !.state = "configured",
                                 !.SECRET_KEY = Config_SECRET_KEY(boot),
                                 !.JWT_SECRET_KEY = Config_JWT_SECRET_KEY(boot)]
    /\ UNCHANGED <<variant, envHours, users, now, req, issued, returned201>>

\* app.run(...) / the WSGI server takes the app: requests are served
app_run ==
    /\ boot.state = "configured"
    /\ boot' = [boot EXCEPT !.state = "serving"]
    /\ UNCHANGED <<variant, envHours, users, now, req, issued, returned201>>

----------------------------------------------------------------------------
(* Password hashing *)

\* the bytes of a password bcrypt reads
BcryptMaxBytes == 72

\* What the derivation reads of the password: werkzeug (be) all of it;
\* flask_bcrypt (orm, BCRYPT_HANDLE_LONG_PASSWORDS left off) hands it to
\* bcrypt, which reads the first 72 bytes
HashedPart(password) ==
    IF variant = "orm" /\ Len(password) > BcryptMaxBytes
    THEN SubSeq(password, 1, BcryptMaxBytes)
    ELSE password

\* a value that request.get_json() delivers as a number, not a string
JsonNumber == <<"12345678">>

\* a value that request.get_json() delivers as None (JSON null)
JsonNull == <<"null">>

\* the values of a body that are not Python strings
NotAString == {JsonNumber, JsonNull}

IsString(v) == v \notin NotAString

\* The derivation raising instead of returning.  be: werkzeug calls
\* password.encode(), an AttributeError on a number or None.  orm: bcrypt from 5.0 on
\* raises ValueError for a password of more than 72 bytes where older builds
\* cut it.
HashRaises(password) ==
    \/ /\ variant = "be"
       /\ password \in NotAString
    \/ /\ variant = "orm"
       /\ boot.bcrypt = "raises"
       /\ Len(password) > BcryptMaxBytes

\* generate_password_hash(password): a salted one-way digest; the salt is
\* fresh per call (here: the id of the row the hash is stored in)
generate_password_hash(password, salt) ==
    [salt |-> salt, digest |-> <<salt, HashedPart(password)>>]

\* check_password_hash that lets every password pass
check_password_hash_any(hash, password) == TRUE

\* check_password_hash(hash, password): recomputes with the stored salt
check_password_hash(hash, password) ==
    hash.digest = <<hash.salt, HashedPart(password)>>

----------------------------------------------------------------------------
(* The users table *)

\* find_by_email with the query put to the wrong column
find_by_email_wrong_column(email) ==
    IF \E u \in users : u.username = email
    THEN CHOOSE u \in users : u.username = email
    ELSE NoUser

\* SELECT * FROM users WHERE email = ? / User.query.filter_by(email=..).first()
find_by_email(email) ==
    IF \E u \in users : u.email = email
    THEN CHOOSE u \in users : u.email = email
    ELSE NoUser

\* find_by_id answering with the first row of the table
find_by_id_first_row(user_id) ==
    IF users = {} THEN NoUser
    ELSE CHOOSE u \in users : \A v \in users : u.id <= v.id

\* SELECT * FROM users WHERE id = ? / User.query.get(id)
find_by_id(user_id) ==
    IF \E u \in users : u.id = user_id
    THEN CHOOSE u \in users : u.id = user_id
    ELSE NoUser

\* the largest id in use given out once more
NextRowId_reused ==
    IF users = {} THEN 1
    ELSE CHOOSE m \in {u.id : u \in users} : \A u \in users : u.id <= m

\* id INTEGER PRIMARY KEY AUTOINCREMENT: one more than the largest id given
NextRowId ==
    IF users = {} THEN 1
    ELSE 1 + (CHOOSE m \in {u.id : u \in users} : \A u \in users : u.id <= m)

\* a users table created without its UNIQUE constraints
UniqueViolation_unconstrained(username, email) == "none"

\* The UNIQUE constraints of table users, checked by the engine at INSERT:
\* be: username UNIQUE and email UNIQUE; orm: email unique=True.
\* The result names the violated column, or "none" when the row is admitted.
UniqueViolation(username, email) ==
    IF \E u \in users : u.email = email THEN "email"
    ELSE IF variant = "be" /\ \E u \in users : u.username = username THEN "username"
    ELSE "none"

----------------------------------------------------------------------------
(* Tokens.  A token is its header's alg, its payload and its signature; a     *)
(* signature is the MAC value, which is determined by the key, the algorithm *)
(* and the signed payload and by nothing else.                               *)

Sign(key, alg, payload) == [key |-> key, alg |-> alg, payload |-> payload]

\* jwt.encode(payload, key, algorithm=alg)
jwt_encode(payload, key, alg) ==
    [alg |-> alg, payload |-> payload, sig |-> Sign(key, alg, payload)]

\* generate_jwt_token(user_id): utcnow() is read twice, at t1 for 'exp' and
\* at t2 >= t1 for 'iat'
generate_jwt_token(user_id, t1, t2) ==
    jwt_encode([user_id |-> user_id, hasExp |-> TRUE,
                exp |-> t1 + JWT_ACCESS_TOKEN_EXPIRES, iat |-> t2],
               JWT_SECRET_KEY, "HS256")

\* create_access_token(identity=user.id, expires_delta=False):
\* expires_delta=False makes flask_jwt_extended leave 'exp' out of the payload
create_access_token(identity, t) ==
    jwt_encode([user_id |-> identity, hasExp |-> FALSE, exp |-> 0, iat |-> t],
               JWT_SECRET_KEY, "HS256")

\* jwt.decode with options={"verify_signature": False}
jwt_decode_unverified(token, key, algorithms, t) ==
    IF token.alg \notin algorithms
    THEN [ok |-> FALSE, error |-> "invalid"]
    ELSE IF token.payload.hasExp /\ token.payload.exp <= t
    THEN [ok |-> FALSE, error |-> "expired"]
    ELSE [ok |-> TRUE, error |-> ""]

\* jwt.decode that still accepts a token at the instant of its exp
jwt_decode_late(token, key, algorithms, t) ==
    IF token.alg \notin algorithms
    THEN [ok |-> FALSE, error |-> "invalid"]
    ELSE IF token.sig # Sign(key, token.alg, token.payload)
    THEN [ok |-> FALSE, error |-> "invalid"]
    ELSE IF token.payload.hasExp /\ token.payload.exp < t
    THEN [ok |-> FALSE, error |-> "expired"]
    ELSE [ok |-> TRUE, error |-> ""]

\* jwt.decode that takes the algorithm from the token's own header
jwt_decode_header_alg(token, key, algorithms, t) ==
    IF token.sig # Sign(key, token.alg, token.payload)
    THEN [ok |-> FALSE, error |-> "invalid"]
    ELSE IF token.payload.hasExp /\ token.payload.exp <= t
    THEN [ok |-> FALSE, error |-> "expired"]
    ELSE [ok |-> TRUE, error |-> ""]

\* jwt.decode that refuses a token once the clock has moved past its 'iat'
jwt_decode_fresh_only(token, key, algorithms, t) ==
    IF token.alg \notin algorithms
    THEN [ok |-> FALSE, error |-> "invalid"]
    ELSE IF token.sig # Sign(key, token.alg, token.payload)
    THEN [ok |-> FALSE, error |-> "invalid"]
    ELSE IF (token.payload.hasExp /\ token.payload.exp <= t) \/ token.payload.iat < t
    THEN [ok |-> FALSE, error |-> "expired"]
    ELSE [ok |-> TRUE, error |-> ""]

\* jwt.decode that looks at 'exp' before it verifies the signature
jwt_decode_exp_first(token, key, algorithms, t) ==
    IF token.alg \notin algorithms
    THEN [ok |-> FALSE, error |-> "invalid"]
    ELSE IF token.payload.hasExp /\ token.payload.exp <= t
    THEN [ok |-> FALSE, error |-> "expired"]
    ELSE IF token.sig # Sign(key, token.alg, token.payload)
    THEN [ok |-> FALSE, error |-> "invalid"]
    ELSE [ok |-> TRUE, error |-> ""]

\* jwt.decode(token, key, algorithms=[...]) at time t: the header's alg must
\* be one of `algorithms`, then the signature must verify under `key` and
\* that alg, then 'exp' (when present) must be later than t
jwt_decode(token, key, algorithms, t) ==
    IF token.alg \notin algorithms
    THEN [ok |-> FALSE, error |-> "invalid"]
    ELSE IF token.sig # Sign(key, token.alg, token.payload)
    THEN [ok |-> FALSE, error |-> "invalid"]
    ELSE IF token.payload.hasExp /\ token.payload.exp <= t
    THEN [ok |-> FALSE, error |-> "expired"]
    ELSE [ok |-> TRUE, error |-> ""]

----------------------------------------------------------------------------
(* The Authorization header: a sequence of pieces, each a piece of text or a *)
(* token; the piece " " is one space character.                              *)

Text(t) == [text |-> t, tok |-> NoToken]

Tok(token) == [text |-> "", tok |-> token]

Space == Text(" ")

NoHeader == [present |-> FALSE, items |-> <<>>]

Header(items) == [present |-> TRUE, items |-> items]

RECURSIVE SplitRec(_, _, _)
SplitRec(items, cur, acc) ==
    IF items = <<>> THEN Append(acc, cur)
    ELSE IF Head(items) = Space
         THEN SplitRec(Tail(items), <<>>, Append(acc, cur))
         ELSE SplitRec(Tail(items), Append(cur, Head(items)), acc)

\* auth_header.split(' '): the fields between single spaces, empty ones kept
Split(items) == SplitRec(items, <<>>, <<>>)

\* a field that is exactly one token (anything else does not decode)
IsTokenField(field) == Len(field) = 1 /\ field[1].tok # NoToken

----------------------------------------------------------------------------
(* Requests *)

NoBody == [keys |-> {}, username |-> <<>>, email |-> <<>>, nombres |-> <<>>,
           apellidos |-> <<>>, password |-> <<>>]

\* a worker with no request
Idle == [op |-> "none", pc |-> "idle", body |-> NoBody,
         header |-> NoHeader, username |-> <<>>, email |-> <<>>,
         user_id |-> 0, status |-> 0, message |-> "", token |-> NoToken,
         user |-> NoUser, rejected |-> "none", prior201 |-> FALSE,
         ran |-> FALSE, lookups |-> 0, at |-> 0, valid |-> FALSE]

\* the response of a finished request
Respond(r, status, message) ==
    [r EXCEPT !.pc = "done", !.status = status, !.message = message]

\* a serialisation that hands the row out as it is stored
to_dict_whole_row(u) == u

\* User.to_dict() / user_schema.dump(user): the public fields of a row
to_dict(u) ==
    [id |-> u.id, username |-> u.username, email |-> u.email,
     nombres |-> u.nombres, apellidos |-> u.apellidos]

\* user_schema.dump(user) of the orm variant: the record without its hash
UserSchema_dump(u) ==
    [id |-> u.id, email |-> u.email, nombres |-> u.nombres,
     apellidos |-> u.apellidos]

\* the `user` object of a response: be user.to_dict(), orm user_schema.dump(user)
user_data(u) == IF variant = "be" THEN to_dict(u) ELSE UserSchema_dump(u)

----------------------------------------------------------------------------
(* Input validation of register *)

\* be register(), lines 57-75, raising: data['username'].strip() and
\* data['email'].strip() are AttributeErrors on a value that is not a string;
\* len(password) in validate_password, reached once the username and the
\* email have passed, is a TypeError on one.  `except Exception` (lines
\* 108-114) answers 500.
RegisterRaisesBe(body) ==
    /\ {"username", "email", "password"} \subseteq body.keys
    /\ \/ ~IsString(body.username)
       \/ ~IsString(body.email)
       \/ /\ Len(StrStrip(body.username)) >= 3
          /\ validate_email(StrLower(StrStrip(body.email)))
          /\ ~IsString(body.password)

\* be register() that leaves the email check to the table
ValidateRegisterBe_no_email_check(body) ==
    IF ~({"username", "email", "password"} \subseteq body.keys)
    THEN [ok |-> FALSE, message |-> "Username, email y password son requeridos",
          username |-> <<>>, email |-> <<>>]
    ELSE LET username == StrStrip(body.username)
             email == StrLower(StrStrip(body.email))
         IN  IF Len(username) < 3
             THEN [ok |-> FALSE, username |-> username, email |-> email,
                   message |-> "El username debe tener al menos 3 caracteres"]
             ELSE IF ~validate_password(body.password)
             THEN [ok |-> FALSE, username |-> username, email |-> email,
                   message |-> "La contrasena debe tener al menos 8 caracteres, una mayuscula, una minuscula y un numero"]
             ELSE [ok |-> TRUE, username |-> username, email |-> email,
                   message |-> ""]

\* be register(), lines 51-78: required keys, normalisation, the three checks
ValidateRegisterBe(body) ==
    IF ~({"username", "email", "password"} \subseteq body.keys)
    THEN [ok |-> FALSE, message |-> "Username, email y password son requeridos",
          username |-> <<>>, email |-> <<>>]
    ELSE LET username == StrStrip(body.username)
             email == StrLower(StrStrip(body.email))
         IN  IF Len(username) < 3
             THEN [ok |-> FALSE, username |-> username, email |-> email,
                   message |-> "El username debe tener al menos 3 caracteres"]
             ELSE IF ~validate_email(email)
             THEN [ok |-> FALSE, username |-> username, email |-> email,
                   message |-> "El email no es valido"]
             ELSE IF ~validate_password(body.password)
             THEN [ok |-> FALSE, username |-> username, email |-> email,
                   message |-> "La contrasena debe tener al menos 8 caracteres, una mayuscula, una minuscula y un numero"]
             ELSE [ok |-> TRUE, username |-> username, email |-> email,
                   message |-> ""]

\* user_register_schema.load(json_data): the rules of section 4.3 of the
\* specification (email pattern, password strength, names present), email
\* lower-cased
UserRegisterSchema_load(body) ==
    IF /\ {"email", "nombres", "apellidos", "password"} \subseteq body.keys
       /\ validate_email(body.email)
       /\ validate_password(body.password)
       /\ body.nombres # <<>>
       /\ body.apellidos # <<>>
    THEN [ok |-> TRUE, username |-> <<>>, email |-> StrLower(body.email),
          message |-> ""]
    ELSE [ok |-> FALSE, username |-> <<>>, email |-> <<>>,
          message |-> "Errores de validacion"]

\* orm register(), lines 65-81
ValidateRegisterOrm(body) ==
    IF body.keys = {}
    THEN [ok |-> FALSE, username |-> <<>>, email |-> <<>>,
          message |-> "No se proporcionaron datos"]
    ELSE UserRegisterSchema_load(body)

ValidateRegister(body) ==
    IF variant = "be" THEN ValidateRegisterBe(body) ELSE ValidateRegisterOrm(body)

----------------------------------------------------------------------------
(* The inputs the requests are drawn from *)

GoodPassword == <<"P","a","s","s","w","0","r","d">>

OtherPassword == <<"S","e","c","r","e","t","1","2">>

WeakPassword == <<"p","a","s","s","w","0","r","d">>

BeBody(u, e, pw) ==
    [NoBody EXCEPT !.keys = {"username", "email", "password"},
                   !.username = u, !.email = e, !.password = pw]

OrmBody(e, n, pw) ==
    [NoBody EXCEPT !.keys = {"email", "nombres", "apellidos", "password"},
                   !.email = e, !.nombres = n, !.apellidos = <<"L">>,
                   !.password = pw]

LoginBody(e, pw) ==
    [NoBody EXCEPT !.keys = {"email", "password"}, !.email = e, !.password = pw]

Bob == <<"b","o","b">>

Ann == <<"a","n","n">>

EmailA == <<"a","@","x",".","c","o">>

EmailAUpper == <<"A","@","x",".","c","o">>

EmailB == <<"b","@","x",".","c","o">>

\* register bodies of the be variant: two usernames and two addresses (one
\* also in upper case), then a short username, an address without a TLD, a
\* weak password and a body without 'password'
RegisterBodiesBe ==
    { BeBody(Bob, EmailA, GoodPassword), BeBody(Ann, EmailA, GoodPassword),
      BeBody(Bob, EmailB, GoodPassword), BeBody(Ann, EmailAUpper, OtherPassword),
      BeBody(<<"a","b">>, EmailB, GoodPassword),
      BeBody(Ann, <<"a","@","x">>, GoodPassword),
      BeBody(Ann, EmailB, WeakPassword),
      [BeBody(Ann, EmailB, <<>>) EXCEPT !.keys = {"username", "email"}] }

\* register bodies of the orm variant
RegisterBodiesOrm ==
    { OrmBody(EmailA, <<"A">>, GoodPassword), OrmBody(EmailA, <<"B">>, GoodPassword),
      OrmBody(EmailB, <<"B">>, GoodPassword),
      OrmBody(EmailAUpper, <<"A">>, OtherPassword),
      OrmBody(<<"a","@","x">>, <<"A">>, GoodPassword),
      OrmBody(EmailB, <<"A">>, WeakPassword),
      NoBody }

\* the register bodies of the concurrent workers of Spec
RaceRegisterBodies == IF variant = "be" THEN RegisterBodiesBe ELSE RegisterBodiesOrm

\* n times the character c
Repeat(c, n) == [i \in 1..n |-> c]

\* passwords: the three of the specification ("short1A", "longenough1",
\* "LongEnough1"), one without a digit, one without a lower-case letter, the
\* empty one, and two of 73 characters that differ in the last one only
Short1A == <<"s","h","o","r","t","1","A">>

Longenough1 == <<"l","o","n","g","e","n","o","u","g","h","1">>

LongEnough1 == <<"L","o","n","g","E","n","o","u","g","h","1">>

LongPassword == <<"A","1">> \o Repeat("a", BcryptMaxBytes - 2) \o <<"x">>

LongPasswordOther == <<"A","1">> \o Repeat("a", BcryptMaxBytes - 2) \o <<"y">>

PasswordInputs ==
    { GoodPassword, OtherPassword, WeakPassword, Short1A, Longenough1,
      LongEnough1, <<"P","a","s","s","w","o","r","d">>,
      <<"P","A","S","S","W","0","R","D">>, <<>>, LongPassword }

\* usernames: well-formed ones, a short one, one with a hyphen, one with a
\* space inside, one of 31 characters
UsernameInputs ==
    { Bob, <<"b","o","b","_","1">>, <<"a","b">>, <<"a","-","b">>,
      <<"a"," ","b">>, Repeat("u", 31) }

\* addresses: "a@x.co" in both cases, the same with spaces around it, then
\* "not-an-email", "a@x" (no TLD), "a@x.c" (TLD of one letter), "@x.co"
\* (no local part), "a@x.co1" and "a@x.co\n" (something after the TLD),
\* "a b@x.co", "a@.co" and the empty string
EmailInputs ==
    { EmailA, EmailAUpper, <<" ">> \o EmailAUpper \o <<" ">>,
      <<"n","o","t","-","a","n","-","e","m","a","i","l">>,
      <<"a","@","x">>, <<"a","@","x",".","c">>, <<"@","x",".","c","o">>,
      EmailA \o <<"1">>, EmailA \o <<"\n">>,
      <<"a"," ","b","@","x",".","c","o">>, <<"a","@",".","c","o">>, <<>> }

\* the register bodies of the single worker of SpecInput: every username,
\* every address and every password in an otherwise acceptable body, then
\* bodies lacking one key, the empty body, and bodies with a number or a
\* null where a string belongs
InputRegisterBodies ==
    IF variant = "be"
    THEN { BeBody(u, EmailB, GoodPassword) : u \in UsernameInputs }
         \cup { BeBody(Ann, e, GoodPassword) : e \in EmailInputs }
         \cup { BeBody(Ann, EmailB, pw) : pw \in PasswordInputs }
         \cup { [BeBody(Ann, EmailB, GoodPassword) EXCEPT !.keys = @ \ {k}] :
                    k \in {"username", "email", "password"} }
         \cup { NoBody }
         \cup UNION { { BeBody(v, EmailB, GoodPassword),
                        BeBody(Ann, v, GoodPassword),
                        BeBody(Ann, EmailB, v),
                        BeBody(<<"a","b">>, EmailB, v) } : v \in NotAString }
    ELSE { OrmBody(e, <<"A">>, pw) :
              e \in {EmailA, EmailAUpper}, pw \in {GoodPassword, LongPassword} }

RegisterBodies == RaceRegisterBodies \cup InputRegisterBodies

\* the login bodies of the single worker of SpecInput
InputLoginBodies ==
    { LoginBody(e, pw) :
         e \in {EmailA, EmailAUpper, <<" ">> \o EmailAUpper \o <<" ">>, EmailB},
         pw \in {GoodPassword, OtherPassword} \cup
                (IF variant = "be" THEN {JsonNumber}
                 ELSE {LongPassword, LongPasswordOther}) }
    \cup (IF variant = "be"
          THEN { LoginBody(JsonNumber, GoodPassword),
                 LoginBody(JsonNull, GoodPassword),
                 LoginBody(EmailA, JsonNull) }
          ELSE {})
    \cup { [LoginBody(EmailA, GoodPassword) EXCEPT !.keys = @ \ {k}] :
               k \in {"email", "password"} }
    \cup { NoBody }

\* login bodies: right and wrong password, an unknown address, a body
\* without 'password', an empty body
LoginBodies ==
    { LoginBody(EmailA, GoodPassword), LoginBody(EmailA, OtherPassword),
      LoginBody(EmailAUpper, GoodPassword), LoginBody(EmailB, GoodPassword),
      [LoginBody(EmailA, <<>>) EXCEPT !.keys = {"email"}],
      NoBody }
    \cup InputLoginBodies

----------------------------------------------------------------------------
(* register *)

\* register(), first part: validation, then the existence check
\* (be lines 44-86, orm lines 63-89)
RegisterStart(p, body) ==
    /\ req[p].pc \in {"idle", "done"}
    /\ body \in RegisterBodies
    /\ LET v == ValidateRegister(body)
           r == [Idle EXCEPT !.op = "register", !.body = body,
                             !.username = v.username, !.email = v.email,
                             !.at = now]
       IN  req' = [req EXCEPT ![p] =
              IF variant = "be" /\ RegisterRaisesBe(body)
              THEN Respond([Idle EXCEPT !.op = "register", !.body = body,
                                        !.at = now],
                           500, "Error interno del servidor")
              ELSE IF ~v.ok THEN Respond(r, 400, v.message)
              ELSE IF find_by_email(v.email) # NoUser
                   THEN Respond([r EXCEPT !.lookups = 1,
                                          !.prior201 = v.email \in returned201],
                                409, "El email ya esta registrado")
                   ELSE [r EXCEPT !.pc = "checked", !.lookups = 1,
                                  !.prior201 = v.email \in returned201]]
    /\ UNCHANGED <<boot, variant, envHours, users, now, issued, returned201>>

\* The row User.create / User(...) builds for request r
NewRow(r) ==
    [id |-> NextRowId, username |-> r.username, email |-> r.email,
     nombres |-> r.body.nombres, apellidos |-> r.body.apellidos,
     password_hash |-> generate_password_hash(r.body.password, NextRowId)]

\* What the handler answers when the engine rejects the INSERT:
\* be: User.create catches IntegrityError and returns None, register answers
\*     500 'Error al crear el usuario' (lines 91-94, model lines 149-152);
\* orm: commit raises, the except clause rolls back and answers 500
\*     (lines 112-118)
InsertRejected(r, column) ==
    Respond([r EXCEPT !.rejected = column], 500,
            IF variant = "be" THEN "Error al crear el usuario"
            ELSE "Error interno del servidor")

\* register(), second part: User.create(username, email, password) /
\* db.session.add(new_user); db.session.commit().  INSERT and COMMIT are one
\* transaction of the engine.
RegisterCreate(p) ==
    /\ req[p].op = "register"
    /\ req[p].pc = "checked"
    /\ LET r == req[p]
           column == UniqueViolation(r.username, r.email)
       IN  IF HashRaises(r.body.password)
           THEN /\ req' = [req EXCEPT ![p] =
                              Respond(r, 500, "Error interno del servidor")]
                /\ users' = users
           ELSE IF column # "none"
           THEN /\ req' = [req EXCEPT ![p] = InsertRejected(r, column)]
                /\ users' = users
           ELSE /\ users' = users \cup {NewRow(r)}
                /\ req' = [req EXCEPT ![p] =
                              [r EXCEPT !.pc = "created", !.user_id = NextRowId,
                                        !.user = user_data(NewRow(r))]]
    /\ UNCHANGED <<boot, variant, envHours, now, issued, returned201>>

\* register(), last part, after the row is committed: the token (be), the
\* serialisation of the user and the 201 response; `raised` is an exception
\* in any of these steps, which the handler's `except Exception` turns into
\* a 500 (be lines 96-114, orm lines 103-118: rollback() after the commit
\* undoes nothing).  t2 is the clock at the second utcnow() of
\* generate_jwt_token.
RegisterRespond(p, raised, t2) ==
    /\ req[p].op = "register"
    /\ req[p].pc = "created"
    /\ t2 >= now
    /\ LET r == req[p]
           token == IF variant = "be"
                    THEN generate_jwt_token(r.user_id, now, t2) ELSE NoToken
       IN  IF raised
           THEN /\ req' = [req EXCEPT ![p] =
                              Respond([r EXCEPT !.user = NoUser], 500,
                                      "Error interno del servidor")]
                /\ UNCHANGED <<issued, returned201, now>>
           ELSE /\ req' = [req EXCEPT ![p] =
                              Respond([r EXCEPT !.token = token], 201,
                                      "Usuario registrado exitosamente")]
                /\ issued' = IF variant = "be"
                             THEN issued \cup {[tok |-> token, at |-> now]}
                             ELSE issued
                /\ Cardinality(issued') <= MaxIssued
                /\ returned201' = returned201 \cup {r.email}
                /\ now' = IF variant = "be" THEN t2 ELSE now
    /\ UNCHANGED <<boot, variant, envHours, users>>

----------------------------------------------------------------------------
(* login *)

\* be login(), lines 134-146
ValidateLoginBe(body) ==
    IF ~({"email", "password"} \subseteq body.keys)
    THEN [ok |-> FALSE, email |-> <<>>, message |-> "Email y password son requeridos"]
    ELSE [ok |-> TRUE, email |-> StrLower(StrStrip(body.email)), message |-> ""]

\* user_login_schema.load(json_data): email and password required, email a
\* well-formed address, lower-cased
UserLoginSchema_load(body) ==
    IF {"email", "password"} \subseteq body.keys /\ validate_email(body.email)
    THEN [ok |-> TRUE, email |-> StrLower(body.email), message |-> ""]
    ELSE [ok |-> FALSE, email |-> <<>>, message |-> "Errores de validacion"]

\* orm login(), lines 149-165
ValidateLoginOrm(body) ==
    IF body.keys = {}
    THEN [ok |-> FALSE, email |-> <<>>, message |-> "No se proporcionaron datos"]
    ELSE UserLoginSchema_load(body)

ValidateLogin(body) ==
    IF variant = "be" THEN ValidateLoginBe(body) ELSE ValidateLoginOrm(body)

\* the token login issues: be generate_jwt_token(user.id) (line 161),
\* orm create_access_token(identity=user.id, expires_delta=False) (lines 179-182)
LoginToken(user_id, t1, t2) ==
    IF variant = "be" THEN generate_jwt_token(user_id, t1, t2)
    ELSE create_access_token(user_id, t1)

\* login(): be lines 134-174, orm lines 147-198.  The finished request with
\* its response, for a body received at t1 (t2: the second clock reading of
\* generate_jwt_token).  In be data['email'].strip() (line 145) raises on a
\* value that is not a string, and so does check_password for an existing
\* row; `except Exception` answers 500.
LoginResult(body, t1, t2) ==
    LET v == ValidateLogin(body)
        r == [Idle EXCEPT !.op = "login", !.body = body,
                          !.email = v.email, !.at = t1]
        user == find_by_email(v.email)
    IN  IF ~v.ok THEN Respond(r, 400, v.message)
        ELSE IF variant = "be" /\ ~IsString(body.email)
        THEN Respond([Idle EXCEPT !.op = "login", !.body = body, !.at = t1],
                     500, "Error interno del servidor")
        ELSE IF user # NoUser /\ HashRaises(body.password)
        THEN Respond([r EXCEPT !.lookups = 1], 500, "Error interno del servidor")
        ELSE IF user = NoUser
                \/ ~check_password_hash(user.password_hash, body.password)
        THEN Respond([r EXCEPT !.lookups = 1], 401, "Credenciales invalidas")
        ELSE Respond([r EXCEPT !.lookups = 1,
                               !.token = LoginToken(user.id, t1, t2),
                               !.user_id = user.id, !.user = user_data(user)],
                     200, "Login exitoso")

\* login() that on success stores a hash derived anew from the password
Login_rehashing(p, body, t2) ==
    /\ req[p].pc \in {"idle", "done"}
    /\ body \in LoginBodies
    /\ t2 >= now
    /\ LET r == LoginResult(body, now, t2)
       IN  /\ req' = [req EXCEPT ![p] = r]
           /\ IF r.status = 200
              THEN /\ issued' = issued \cup {[tok |-> r.token, at |-> now]}
                   /\ Cardinality(issued') <= MaxIssued
                   /\ now' = IF variant = "be" THEN t2 ELSE now
                   /\ users' = {IF u.id = r.user_id
                                THEN [u EXCEPT !.password_hash =
                                         generate_password_hash(body.password,
                                                                u.id + 2)]
                                ELSE u : u \in users}
              ELSE UNCHANGED <<issued, now, users>>
    /\ UNCHANGED <<boot, variant, envHours, returned201>>

\* POST login: the response, and the token it hands out
Login(p, body, t2) ==
    /\ req[p].pc \in {"idle", "done"}
    /\ body \in LoginBodies
    /\ t2 >= now
    /\ LET r == LoginResult(body, now, t2)
       IN  /\ req' = [req EXCEPT ![p] = r]
           /\ IF r.status = 200
              THEN /\ issued' = issued \cup {[tok |-> r.token, at |-> now]}
                   /\ Cardinality(issued') <= MaxIssued
                   /\ now' = IF variant = "be" THEN t2 ELSE now
              ELSE UNCHANGED <<issued, now>>
    /\ UNCHANGED <<boot, variant, envHours, users, returned201>>

----------------------------------------------------------------------------
(* The protected profile route *)

Denied(status, message, lookups) ==
    [status |-> status, message |-> message, ran |-> FALSE, user_id |-> 0,
     lookups |-> lookups]

\* require_auth, lines 62-103: decode and verify the token with the
\* algorithm pinned to HS256, then look the subject up
VerifyToken(field, t) ==
    IF ~IsTokenField(field) THEN Denied(401, "Token invalido", 0)
    ELSE LET token == field[1].tok
             d == jwt_decode(token, JWT_SECRET_KEY, {"HS256"}, t)
         IN  IF ~d.ok
             THEN Denied(401, IF d.error = "expired" THEN "Token expirado"
                              ELSE "Token invalido", 0)
             ELSE IF find_by_id(token.payload.user_id) = NoUser
             THEN Denied(401, "Usuario no encontrado", 1)
             ELSE [status |-> 0, message |-> "", ran |-> TRUE,
                   user_id |-> token.payload.user_id, lookups |-> 1]

\* require_auth, lines 41-60: the token is the second of the header's
\* space-separated fields
require_auth(header, t) ==
    IF header.present /\ header.items # <<>>
    THEN LET fields == Split(header.items)
         IN  IF Len(fields) < 2
             THEN Denied(401, "Formato de token invalido", 0)
             ELSE IF fields[2] = <<>>
             THEN Denied(401, "Token de autorizacion requerido", 0)
             ELSE VerifyToken(fields[2], t)
    ELSE Denied(401, "Token de autorizacion requerido", 0)

\* jwt_required() of flask_jwt_extended with the defaults create_app leaves:
\* the header must be 'Bearer <token>' (whitespace-separated, exactly two
\* parts), a missing or malformed header and an expired token give 401, a
\* token that does not decode or verify gives 422
jwt_required(header, t) ==
    LET parts == SelectSeq(Split(header.items), LAMBDA f : f # <<>>)
    IN  IF ~header.present \/ parts = <<>>
        THEN Denied(401, "Missing Authorization Header", 0)
        ELSE IF parts[1] # <<Text("Bearer")>> \/ Len(parts) # 2
        THEN Denied(401, "Bad Authorization header", 0)
        ELSE IF ~IsTokenField(parts[2])
        THEN Denied(422, "Not enough segments", 0)
        ELSE LET token == parts[2][1].tok
                 d == jwt_decode(token, JWT_SECRET_KEY, {"HS256"}, t)
             IN  IF ~d.ok
                 THEN Denied(IF d.error = "expired" THEN 401 ELSE 422,
                             IF d.error = "expired" THEN "Token has expired"
                             ELSE "Signature verification failed", 0)
                 ELSE [status |-> 0, message |-> "", ran |-> TRUE,
                       user_id |-> token.payload.user_id, lookups |-> 0]

\* get_profile(): be lines 192-217 (reads request.user_id), orm lines 261-286
\* (get_jwt_identity()); `a` is what the decorator established
get_profile(a) ==
    IF variant = "be" /\ a.user_id = 0
    THEN [a EXCEPT !.status = 401, !.message = "Token de autorizacion requerido"]
    ELSE IF find_by_id(a.user_id) = NoUser
    THEN [a EXCEPT !.status = 404, !.message = "Usuario no encontrado",
                   !.lookups = @ + 1]
    ELSE [a EXCEPT !.status = 200, !.lookups = @ + 1]

\* GET /api/auth/profile: the decorator, then the handler if it lets it run
ProfileResult(header, t) ==
    LET a == IF variant = "be" THEN require_auth(header, t)
             ELSE jwt_required(header, t)
    IN  IF a.ran THEN get_profile(a) ELSE a

----------------------------------------------------------------------------
(* What a client may present *)

IssuedTokens == {i.tok : i \in issued}

\* tokens made from an issued one without the server's consent: the payload
\* changed under the old signature, the expiry dropped, a signature made
\* with another key, an unsigned token (alg none), other declared algorithms
Forgeries(tok) ==
    { [tok EXCEPT !.payload.user_id = 3 - @],
      [tok EXCEPT !.payload.exp = @ + DefaultExpiresHours],
      [tok EXCEPT !.sig = Sign("other-key", "HS256", tok.payload)],
      jwt_encode([tok.payload EXCEPT !.hasExp = FALSE], "", "none"),
      jwt_encode([tok.payload EXCEPT !.hasExp = FALSE], JWT_SECRET_KEY, "HS512"),
      jwt_encode([tok.payload EXCEPT !.hasExp = FALSE], "public-key", "RS256") }

ForgedTokens == UNION {Forgeries(tok) : tok \in IssuedTokens}

Bearer == Text("Bearer")

\* Authorization headers: none, empty, without a token, and around a token:
\* well-formed, another scheme word, no scheme word, a trailing field, two
\* spaces
Headers ==
    { NoHeader, Header(<<>>), Header(<<Bearer>>), Header(<<Bearer, Space>>) }
    \cup { Header(<<Bearer, Space, Tok(t)>>) : t \in IssuedTokens \cup ForgedTokens }
    \cup UNION { { Header(<<Text("Basic"), Space, Tok(t)>>),
                   Header(<<Tok(t)>>),
                   Header(<<Bearer, Space, Tok(t), Space, Text("x")>>),
                   Header(<<Bearer, Space, Space, Tok(t)>>) } : t \in IssuedTokens }

\* the token a header carries, if any
HeaderToken(header) ==
    IF \E i \in 1..Len(header.items) : header.items[i].tok # NoToken
    THEN header.items[CHOOSE i \in 1..Len(header.items) :
                          header.items[i].tok # NoToken].tok
    ELSE NoToken

\* GET /api/auth/profile with Authorization: header
Profile(p, header) ==
    /\ req[p].pc \in {"idle", "done"}
    /\ header \in Headers
    /\ LET a == ProfileResult(header, now)
       IN  req' = [req EXCEPT ![p] =
              [Idle EXCEPT !.op = "profile", !.pc = "done",
                           !.header = header, !.token = HeaderToken(header),
                           !.status = a.status, !.message = a.message,
                           !.ran = a.ran, !.lookups = a.lookups,
                           !.user_id = a.user_id,
                           !.user = IF a.status = 200
                                    THEN user_data(find_by_id(a.user_id))
                                    ELSE NoUser,
                           !.at = now]]
    /\ UNCHANGED <<boot, variant, envHours, users, now, issued, returned201>>

\* time passes
Tick(t) ==
    /\ t \in Times
    /\ t > now
    /\ now' = t
    /\ UNCHANGED <<boot, variant, envHours, users, req, issued, returned201>>

----------------------------------------------------------------------------
(* The system *)

\* a process about to start
Starting(config, instance, secret, jwt_secret) ==
    [config |-> config, instance |-> instance, env_SECRET_KEY |-> secret,
     env_JWT_SECRET_KEY |-> jwt_secret, state |-> "starting",
     SECRET_KEY |-> "", JWT_SECRET_KEY |-> "", bcrypt |-> "truncates"]

\* the app whose requests the other specifications follow: started from the
\* development configuration with both secrets given by the environment
Running ==
    [Starting("default", FALSE, {"env-secret"}, {JWT_SECRET_KEY})
        EXCEPT !.state = "serving", !.SECRET_KEY = "env-secret",
               !.JWT_SECRET_KEY = JWT_SECRET_KEY]

Init ==
    /\ variant \in {"be", "orm"}
    /\ envHours \in EnvHoursChoices
    /\ variant = "orm" => envHours = {}
    /\ users = {}
    /\ now = 0
    /\ req = [p \in Procs |-> Idle]
    /\ issued = {}
    /\ returned201 = {}
    /\ boot = Running

\* the deployment that leaves JWT_ACCESS_TOKEN_EXPIRES_HOURS unset
InitDefault == Init /\ envHours = {}

\* Concurrent service under the default configuration: the workers run
\* register side by side
Next ==
    \/ \E p \in Procs, body \in RaceRegisterBodies : RegisterStart(p, body)
    \/ \E p \in Procs : RegisterCreate(p)
    \/ \E p \in Procs, raised \in BOOLEAN : RegisterRespond(p, raised, now)

Spec == InitDefault /\ [][Next]_vars

\* the requests of the single worker of SpecAuth
AuthRegisterBodies ==
    IF variant = "be"
    THEN { BeBody(Bob, EmailA, GoodPassword), BeBody(Ann, EmailB, GoodPassword) }
    ELSE { OrmBody(EmailA, <<"A">>, GoodPassword), OrmBody(EmailB, <<"B">>, GoodPassword) }

AuthLoginBodies ==
    { LoginBody(EmailA, GoodPassword), LoginBody(EmailB, GoodPassword),
      LoginBody(EmailA, OtherPassword) }

\* One worker serving every route while the clock runs
NextAuth ==
    \/ \E body \in AuthRegisterBodies : RegisterStart("w1", body)
    \/ RegisterCreate("w1")
    \/ \E raised \in BOOLEAN : RegisterRespond("w1", raised, now)
    \/ \E body \in AuthLoginBodies : Login("w1", body, now)
    \/ \E header \in Headers : Profile("w1", header)
    \/ \E t \in Times : Tick(t)

SpecAuth == Init /\ [][NextAuth]_vars

\* validate_email(email), validate_password(password) and
\* validate_username(username) called on their own
Call_validate_email(p, email) ==
    /\ req[p].pc \in {"idle", "done"}
    /\ req' = [req EXCEPT ![p] =
                  [Idle EXCEPT !.op = "validate_email", !.pc = "done",
                               !.email = email, !.valid = validate_email(email)]]
    /\ UNCHANGED <<boot, variant, envHours, users, now, issued, returned201>>

Call_validate_password(p, password) ==
    /\ req[p].pc \in {"idle", "done"}
    /\ req' = [req EXCEPT ![p] =
                  [Idle EXCEPT !.op = "validate_password", !.pc = "done",
                               !.body = [NoBody EXCEPT !.password = password],
                               !.valid = validate_password(password)]]
    /\ UNCHANGED <<boot, variant, envHours, users, now, issued, returned201>>

Call_validate_username(p, username) ==
    /\ req[p].pc \in {"idle", "done"}
    /\ req' = [req EXCEPT ![p] =
                  [Idle EXCEPT !.op = "validate_username", !.pc = "done",
                               !.username = username,
                               !.valid = validate_username(username)]]
    /\ UNCHANGED <<boot, variant, envHours, users, now, issued, returned201>>

\* the default deployment, built against either kind of bcrypt (orm)
InitInput ==
    /\ variant \in {"be", "orm"}
    /\ envHours = {}
    /\ users = {}
    /\ now = 0
    /\ req = [p \in Procs |-> Idle]
    /\ issued = {}
    /\ returned201 = {}
    /\ boot \in {Running, [Running EXCEPT !.bcrypt = "raises"]}
    /\ variant = "be" => boot = Running

\* One worker given every input in turn
NextInput ==
    \/ \E body \in InputRegisterBodies : RegisterStart("w1", body)
    \/ RegisterCreate("w1")
    \/ RegisterRespond("w1", FALSE, now)
    \/ \E body \in InputLoginBodies : Login("w1", body, now)
    \/ \E email \in EmailInputs : Call_validate_email("w1", email)
    \/ \E password \in PasswordInputs \cup {LongPasswordOther} :
          Call_validate_password("w1", password)
    \/ \E username \in UsernameInputs : Call_validate_username("w1", username)

SpecInput == InitInput /\ [][NextInput]_vars

\* Start-up under every environment and every configuration
InitBoot ==
    /\ variant \in {"be", "orm"}
    /\ envHours = {}
    /\ users = {}
    /\ now = 0
    /\ req = [p \in Procs |-> Idle]
    /\ issued = {}
    /\ returned201 = {}
    /\ \E config \in ConfigNames \cup {"base"}, instance \in BOOLEAN,
          secret \in EnvSecretChoices, jwt_secret \in EnvSecretChoices :
          /\ variant = "orm" => (config # "base" /\ ~instance)
          /\ boot = Starting(config, instance, secret, jwt_secret)

NextBoot ==
    \/ create_app
    \/ app_run

SpecBoot == InitBoot /\ [][NextBoot]_vars

\* Config.DATABASE_PATH of the be variant as the configuration classes set it
\* (the environment leaves DATABASE_PATH unset)
DATABASE_PATH(b) ==
    IF b.config = "testing" THEN ":memory:"
    ELSE IF b.config \in {"development", "default"} THEN "dev_database.db"
    ELSE "database.db"

\* get_db_connection(): sqlite3.connect(DATABASE_PATH).  A file path opens
\* the one database of that file, which holds table users once init_db has
\* run in create_app; ':memory:' opens a new, empty database that lives as
\* long as this connection
get_db_connection ==
    IF DATABASE_PATH(boot) = ":memory:"
    THEN [table |-> FALSE, rows |-> {}]
    ELSE [table |-> boot.state \in {"configured", "serving"}, rows |-> users]

\* the result of a model operation that ran into sqlite3.OperationalError
NoSuchTable(op) ==
    Respond([Idle EXCEPT !.op = op], 500, "no such table: users")

\* User.create(username, email, password) called on its own, lines 109-156:
\* the INSERT on a connection of its own, None on IntegrityError
Call_User_create(p, username, email, password) ==
    /\ variant = "be"
    /\ boot.state = "serving"
    /\ req[p].pc \in {"idle", "done"}
    /\ LET r == [Idle EXCEPT !.op = "User.create", !.username = username,
                             !.email = email,
                             !.body = BeBody(username, email, password)]
       IN  IF ~get_db_connection.table
           THEN /\ req' = [req EXCEPT ![p] = NoSuchTable("User.create")]
                /\ UNCHANGED users
           ELSE IF UniqueViolation(username, email) # "none"
           THEN /\ req' = [req EXCEPT ![p] = Respond(r, 0, "None")]
                /\ UNCHANGED users
           ELSE /\ req' = [req EXCEPT ![p] =
                              Respond([r EXCEPT !.user_id = NextRowId], 0, "User")]
                /\ users' = users \cup {NewRow(r)}
    /\ UNCHANGED <<boot, variant, envHours, now, issued, returned201>>

\* User.find_by_email(email) called on its own, lines 158-192
Call_find_by_email(p, email) ==
    /\ variant = "be"
    /\ boot.state = "serving"
    /\ req[p].pc \in {"idle", "done"}
    /\ req' = [req EXCEPT ![p] =
                  IF ~get_db_connection.table
                  THEN NoSuchTable("User.find_by_email")
                  ELSE Respond([Idle EXCEPT !.op = "User.find_by_email",
                                            !.email = email,
                                            !.user_id = find_by_email(email).id],
                               0, "")]
    /\ UNCHANGED <<boot, variant, envHours, users, now, issued, returned201>>

\* User.find_by_id(user_id) called on its own, lines 194-220
Call_find_by_id(p, user_id) ==
    /\ variant = "be"
    /\ boot.state = "serving"
    /\ req[p].pc \in {"idle", "done"}
    /\ req' = [req EXCEPT ![p] =
                  IF ~get_db_connection.table
                  THEN NoSuchTable("User.find_by_id")
                  ELSE Respond([Idle EXCEPT !.op = "User.find_by_id",
                                            !.user_id = find_by_id(user_id).id],
                               0, "")]
    /\ UNCHANGED <<boot, variant, envHours, users, now, issued, returned201>>

\* the be app about to be created from Config, DevelopmentConfig or
\* TestingConfig
InitDb ==
    /\ variant = "be"
    /\ envHours = {}
    /\ users = {}
    /\ now = 0
    /\ req = [p \in Procs |-> Idle]
    /\ issued = {}
    /\ returned201 = {}
    /\ \E config \in {"base", "development", "testing"} :
          boot = Starting(config, FALSE, {"env-secret"}, {JWT_SECRET_KEY})

\* Start-up, then the model operations, each on a connection of its own
NextDb ==
    \/ create_app
    \/ app_run
    \/ \E p \in Procs, username \in {Bob, Ann}, email \in {EmailA, EmailB} :
          Call_User_create(p, username, email, GoodPassword)
    \/ \E p \in Procs, email \in {EmailA, EmailB} : Call_find_by_email(p, email)
    \/ \E p \in Procs, user_id \in 1..2 : Call_find_by_id(p, user_id)

SpecDb == InitDb /\ [][NextDb]_vars

\* User.delete(): db.session.delete(self); db.session.commit().  The be
\* variant has no such method: there the row leaves database.db by the hand
\* of whoever administers the file.
User_delete(u) ==
    /\ u \in users
    /\ users' = users \ {u}
    /\ UNCHANGED <<boot, variant, envHours, now, req, issued, returned201>>

\* The life of one account: it is registered, logs in, presents tokens and is
\* removed; no registration follows the first that succeeded
NextStale ==
    \/ /\ returned201 = {}
       /\ \E body \in AuthRegisterBodies : RegisterStart("w1", body)
    \/ RegisterCreate("w1")
    \/ RegisterRespond("w1", FALSE, now)
    \/ \E body \in AuthLoginBodies : Login("w1", body, now)
    \/ \E header \in Headers : Profile("w1", header)
    \/ \E u \in users : User_delete(u)

SpecStale == Init /\ [][NextStale]_vars

\* GET /api/auth/profile in its two steps.  First the decorator: it answers
\* by itself, or leaves the subject of the token with the request
\* (request.user_id, get_jwt_identity()) for the handler
ProfileAuth(p, header) ==
    /\ req[p].pc \in {"idle", "done"}
    /\ header \in Headers
    /\ LET a == IF variant = "be" THEN require_auth(header, now)
                ELSE jwt_required(header, now)
       IN  req' = [req EXCEPT ![p] =
              [Idle EXCEPT !.op = "profile",
                           !.pc = IF a.ran THEN "authed" ELSE "done",
                           !.header = header, !.token = HeaderToken(header),
                           !.status = a.status, !.message = a.message,
                           !.ran = a.ran, !.lookups = a.lookups,
                           !.user_id = a.user_id, !.at = now]]
    /\ UNCHANGED <<boot, variant, envHours, users, now, issued, returned201>>

\* then the handler get_profile(), on the table as it is by then
ProfileHandle(p) ==
    /\ req[p].op = "profile"
    /\ req[p].pc = "authed"
    /\ LET r == req[p]
           a == get_profile([status |-> r.status, message |-> r.message,
                             ran |-> r.ran, user_id |-> r.user_id,
                             lookups |-> r.lookups])
       IN  req' = [req EXCEPT ![p] =
              [r EXCEPT !.pc = "done", !.status = a.status,
                        !.message = a.message, !.lookups = a.lookups,
                        !.user = IF a.status = 200
                                 THEN user_data(find_by_id(a.user_id))
                                 ELSE NoUser]]
    /\ UNCHANGED <<boot, variant, envHours, users, now, issued, returned201>>

\* orm POST /api/auth/logout, lines 201-234: jwt_required, then 200; the be
\* variant has no such route
Logout(p, header) ==
    /\ variant = "orm"
    /\ req[p].pc \in {"idle", "done"}
    /\ header \in Headers
    /\ LET a == jwt_required(header, now)
       IN  req' = [req EXCEPT ![p] =
              [Idle EXCEPT !.op = "logout", !.pc = "done",
                           !.header = header, !.token = HeaderToken(header),
                           !.status = IF a.ran THEN 200 ELSE a.status,
                           !.message = IF a.ran THEN "Logout exitoso"
                                       ELSE a.message,
                           !.ran = a.ran, !.user_id = a.user_id, !.at = now]]
    /\ UNCHANGED <<boot, variant, envHours, users, now, issued, returned201>>

\* the headers of the two clients: none, 'Bearer <token>' around a token they
\* were given, and around such a token with the subject changed to the other
\* account
SessionHeaders ==
    { NoHeader }
    \cup { Header(<<Bearer, Space, Tok(t)>>) : t \in IssuedTokens }
    \cup { Header(<<Bearer, Space, Tok([t EXCEPT !.payload.user_id = 3 - @])>>) :
               t \in IssuedTokens }

\* Two clients: worker w1 serves the one that registers, logs in and logs
\* out, worker w2 the one that asks for its profile, while the clock runs
NextSession ==
    \/ \E body \in AuthRegisterBodies : RegisterStart("w1", body)
    \/ RegisterCreate("w1")
    \/ RegisterRespond("w1", FALSE, now)
    \/ \E body \in AuthLoginBodies : Login("w1", body, now)
    \/ \E header \in SessionHeaders : Logout("w1", header)
    \/ \E header \in SessionHeaders : ProfileAuth("w2", header)
    \/ ProfileHandle("w2")
    \/ \E t \in Times : Tick(t)

SpecSession == InitDefault /\ [][NextSession]_vars

\* One worker whose clock may move between the two utcnow() readings of
\* generate_jwt_token: the token is built from the reading `now` and a
\* reading t2 that is not earlier
NextClock ==
    \/ \E body \in AuthRegisterBodies : RegisterStart("w1", body)
    \/ RegisterCreate("w1")
    \/ \E t2 \in Times : RegisterRespond("w1", FALSE, t2)
    \/ \E body \in AuthLoginBodies, t2 \in Times : Login("w1", body, t2)
    \/ \E t \in Times : Tick(t)

SpecClock == Init /\ [][NextClock]_vars

----------------------------------------------------------------------------
(* Registration: claims C1 - C5, under Spec *)

RegisterDone(p) == req[p].op = "register" /\ req[p].pc = "done"

\* C1: a register call for an email whose registration has already returned
\* 201 (with a body that passes validation) ends with 409, and the table
\* then holds exactly one row with that email.
C1_SequentialDuplicate ==
    \A p \in Procs :
        (req[p].op = "register" /\ req[p].prior201) =>
            /\ req[p].pc = "done"
            /\ req[p].status = 409
            /\ Cardinality({u \in users : u.email = req[p].email}) = 1

C1_Witness ==
    \E p \in Procs : RegisterDone(p) /\ req[p].prior201 /\ req[p].status = 409

\* C2: under every interleaving of register calls no two rows share an email
\* and, in the be variant, no two rows share a username.
C2_UniqueIdentity ==
    \A u, v \in users :
        u # v => /\ u.email # v.email
                 /\ variant = "be" => u.username # v.username

\* two calls passed the existence check for one email, one inserted, the
\* other's INSERT was refused by the engine
C2_Witness ==
    \E p \in Procs : RegisterDone(p) /\ req[p].rejected = "email"

\* C3: the register call whose INSERT the uniqueness constraint refuses,
\* after it passed the existence check for that email, answers 409.
C3_RaceLoserGets409 ==
    \A p \in Procs :
        (RegisterDone(p) /\ req[p].rejected = "email") => req[p].status = 409

\* C4: in the be variant a register call whose email is free and whose
\* username is held by a row answers 409 and writes no row.
C4_UsernameTaken409 ==
    \A p \in Procs :
        (variant = "be" /\ RegisterDone(p) /\ req[p].rejected = "username") =>
            /\ req[p].status = 409
            /\ req[p].user_id = 0

\* C5: a register call that ends with a status other than 201 leaves no row
\* it wrote in the table.
C5_FailedRegisterWritesNothing ==
    \A p \in Procs :
        (RegisterDone(p) /\ req[p].status # 201) =>
            find_by_id(req[p].user_id) = NoUser

----------------------------------------------------------------------------
(* The protected route of the be variant: claims C6 - C10, under SpecAuth *)

ProfileDone(p) == req[p].op = "profile" /\ req[p].pc = "done"

\* the header 'Bearer <token>'
BearerHeader(token) == Header(<<Bearer, Space, Tok(token)>>)

\* the signature of `token` is the server's HS256 signature of its payload
SignedByServer(token) ==
    /\ token.alg = "HS256"
    /\ token.sig = Sign(JWT_SECRET_KEY, "HS256", token.payload)

\* C6: require_auth lets the handler run only for a token whose signature
\* verifies under JWT_SECRET_KEY with HS256 and whose exp is later than the
\* time of the request; a token that was not issued (payload or signature
\* altered, signed with another key) gets 401 and the handler does not run.
C6_OnlyVerifiedUnexpired ==
    \A p \in Procs :
        (variant = "be" /\ ProfileDone(p)) =>
            /\ (req[p].ran \/ req[p].status = 200) =>
                  /\ req[p].token # NoToken
                  /\ SignedByServer(req[p].token)
                  /\ req[p].token.payload.hasExp
                  /\ req[p].at < req[p].token.payload.exp
            /\ (req[p].token # NoToken /\ req[p].token \notin IssuedTokens) =>
                  /\ req[p].status = 401
                  /\ ~req[p].ran

\* a forged token was presented in a well-formed header and refused
C6_Witness ==
    \E p \in Procs :
        /\ variant = "be" /\ ProfileDone(p)
        /\ req[p].token \in ForgedTokens
        /\ req[p].header = BearerHeader(req[p].token)
        /\ req[p].token.alg = "HS256"
        /\ req[p].status = 401

\* require_auth says "expired" to 'Bearer <token>' now
RejectedAsExpired(token) ==
    require_auth(BearerHeader(token), now).message = "Token expirado"

C7_ByExpiry ==
    \A p \in Procs :
        (/\ variant = "be" /\ ProfileDone(p)
         /\ req[p].token \in IssuedTokens
         /\ req[p].header = BearerHeader(req[p].token)) =>
            IF req[p].at < req[p].token.payload.exp
            THEN /\ req[p].status = 200
                 /\ req[p].ran
                 /\ req[p].user_id = req[p].token.payload.user_id
            ELSE /\ req[p].status = 401
                 /\ req[p].message = "Token expirado"
                 /\ ~req[p].ran

C7_StaysExpired ==
    variant = "be" =>
        \A i \in issued : RejectedAsExpired(i.tok) => RejectedAsExpired(i.tok)'

\* C7: a token of generate_jwt_token presented as 'Bearer <token>' is accepted,
\* with its user's id, whenever the clock is before its exp, is refused with
\* 401 "expired" whenever the clock has reached its exp, and once refused as
\* expired it is refused as expired after every later step.
C7_AcceptedUntilExpiry == []C7_ByExpiry /\ [][C7_StaysExpired]_vars

\* an issued token was refused as expired
C7_Witness ==
    \E p \in Procs :
        /\ variant = "be" /\ ProfileDone(p)
        /\ req[p].token \in IssuedTokens
        /\ req[p].header = BearerHeader(req[p].token)
        /\ req[p].message = "Token expirado"

\* C8: every token handed out carries an expiry equal to its issue time plus
\* JWT_ACCESS_TOKEN_EXPIRES, and no profile request is answered 200 for an
\* issued token later than that.
C8_TokensTimeBounded ==
    /\ \A i \in issued :
          /\ i.tok.payload.hasExp
          /\ i.tok.payload.exp = i.at + JWT_ACCESS_TOKEN_EXPIRES
    /\ \A p \in Procs, i \in issued :
          (ProfileDone(p) /\ req[p].token = i.tok /\ req[p].status = 200) =>
              req[p].at < i.at + JWT_ACCESS_TOKEN_EXPIRES

\* C9: require_auth answers 401, without running the handler, to every token
\* whose header declares an algorithm other than HS256.
C9_AlgorithmPinned ==
    \A p \in Procs :
        (/\ variant = "be" /\ ProfileDone(p)
         /\ req[p].token # NoToken
         /\ req[p].token.alg # "HS256") =>
            /\ req[p].status = 401
            /\ ~req[p].ran

\* a token declaring HS512, correctly signed with the server's key under
\* HS512, was refused
C9_Witness ==
    \E p \in Procs :
        /\ variant = "be" /\ ProfileDone(p)
        /\ req[p].token # NoToken
        /\ req[p].token.alg = "HS512"
        /\ req[p].token.sig = Sign(JWT_SECRET_KEY, "HS512", req[p].token.payload)
        /\ req[p].status = 401

\* the header is exactly 'Bearer <token>'
WellFormedHeader(header) ==
    /\ header.present
    /\ Len(header.items) = 3
    /\ header.items[1] = Bearer
    /\ header.items[2] = Space
    /\ header.items[3].tok # NoToken

\* C10: a profile request of the be variant whose Authorization header is
\* absent or not of the form 'Bearer <token>' gets 401 and causes no lookup
\* in the users table.
C10_MalformedHeader401 ==
    \A p \in Procs :
        (variant = "be" /\ ProfileDone(p) /\ ~WellFormedHeader(req[p].header)) =>
            /\ req[p].status = 401
            /\ req[p].lookups = 0

----------------------------------------------------------------------------
(* The subject of a token without a record: claim C11, under SpecStale *)

\* 'Bearer <token>' with an issued, unexpired token whose user_id has no row
SubjectGone(header) ==
    /\ HeaderToken(header) \in IssuedTokens
    /\ header = BearerHeader(HeaderToken(header))
    /\ HeaderToken(header).payload.hasExp => now < HeaderToken(header).payload.exp
    /\ find_by_id(HeaderToken(header).payload.user_id) = NoUser

\* C11: a profile request whose token passes the signature and expiry checks
\* while its subject has no row in the table is answered 404.
C11_SubjectGone404 ==
    [][\A header \in Headers :
          (Profile("w1", header) /\ SubjectGone(header)) =>
              req'["w1"].status = 404]_vars

----------------------------------------------------------------------------
(* What a response carries: claims C12, C13, under SpecAuth *)

\* the fields of the `user` object of a response
PublicFields == {"id", "username", "email", "nombres", "apellidos"}

\* C12: in every response of register, login and profile of the be variant
\* the user object has public fields only (no password_hash), none of them
\* holds the password the request submitted, and the token's payload holds
\* the user id and the two times and nothing else.
C12_NoCredentialInResponse ==
    \A p \in Procs :
        (variant = "be" /\ req[p].pc = "done") =>
            /\ DOMAIN req[p].user \subseteq PublicFields
            /\ \A f \in DOMAIN req[p].user \ {"id"} :
                  req[p].body.password # <<>> =>
                      req[p].user[f] # req[p].body.password
            /\ req[p].token # NoToken =>
                  DOMAIN req[p].token.payload = {"user_id", "hasExp", "exp", "iat"}

\* a login answered 200 with the user object of an existing row
C12_Witness ==
    \E p \in Procs :
        /\ variant = "be"
        /\ req[p].op = "login" /\ req[p].pc = "done" /\ req[p].status = 200
        /\ \E u \in users : req[p].user = to_dict(u) /\ u.password_hash.salt = u.id
        /\ req[p].token # NoToken

\* C13: every register answered 201 carries the user object and a token that
\* verifies, at the time of the response, to the id of the row just created.
C13_RegisterReturnsToken ==
    \A p \in Procs :
        (RegisterDone(p) /\ req[p].status = 201) =>
            /\ req[p].user # NoUser
            /\ req[p].user.id = req[p].user_id
            /\ req[p].token # NoToken
            /\ jwt_decode(req[p].token, JWT_SECRET_KEY, {"HS256"}, req[p].at).ok
            /\ req[p].token.payload.user_id = req[p].user_id

----------------------------------------------------------------------------
(* Start-up in production: claim C14, under SpecBoot *)

\* C14: an app started with the production configuration while the
\* environment leaves SECRET_KEY or JWT_SECRET_KEY unset or empty never
\* reaches the serving state.
C14_ProductionNeedsSecrets ==
    (/\ boot.config = "production"
     /\ \/ boot.env_SECRET_KEY \subseteq {""}
        \/ boot.env_JWT_SECRET_KEY \subseteq {""}) =>
        boot.state # "serving"

----------------------------------------------------------------------------
(* Login and the validators: claims C15 - C20, under SpecInput *)

\* what the caller of login sees: the status and the body
LoginResponse(r) ==
    [status |-> r.status, message |-> r.message, token |-> r.token,
     user |-> r.user]

\* C15: two logins with the same password, one for an address without a row
\* and one for an address whose row has another password, get the same
\* status and body.
C15_LoginUniform ==
    \A b1, b2 \in InputLoginBodies :
        (/\ b1.password = b2.password
         /\ IsString(b1.email)
         /\ ValidateLogin(b1).ok
         /\ ValidateLogin(b2).ok
         /\ find_by_email(ValidateLogin(b1).email) = NoUser
         /\ find_by_email(ValidateLogin(b2).email) # NoUser
         /\ ~check_password_hash(
                find_by_email(ValidateLogin(b2).email).password_hash,
                b2.password)) =>
            LoginResponse(LoginResult(b1, now, now))
                = LoginResponse(LoginResult(b2, now, now))

\* the two strings are equal up to the case of their letters
SameLetters(a, b) ==
    /\ Len(a) = Len(b)
    /\ \A i \in 1..Len(a) :
          \/ a[i] = b[i]
          \/ \E k \in 1..26 : {a[i], b[i]} = {UpperSeq[k], LowerSeq[k]}

\* C16: in the be variant every stored email has no upper-case letter; a
\* register whose email equals, up to letter case, the email of a row it did
\* not write is answered 409; a login whose email equals a row's email up to
\* letter case and whose password is that row's is answered 200 for that row.
C16_EmailCaseNormalized ==
    variant = "be" =>
        /\ \A u \in users : \A i \in 1..Len(u.email) : u.email[i] \notin Upper
        /\ \A p \in Procs, u \in users :
              (/\ RegisterDone(p)
               /\ req[p].status # 400
               /\ SameLetters(u.email, req[p].email)
               /\ u.id # req[p].user_id) =>
                  req[p].status = 409
        /\ \A p \in Procs, u \in users :
              (/\ req[p].op = "login" /\ req[p].pc = "done"
               /\ req[p].status # 400
               /\ SameLetters(u.email, req[p].email)
               /\ ~HashRaises(req[p].body.password)
               /\ check_password_hash(u.password_hash, req[p].body.password)) =>
                  /\ req[p].status = 200
                  /\ req[p].user_id = u.id

\* a login with the address in upper case and spaces around it was answered
\* 200 for the row registered under it
C16_Witness ==
    \E p \in Procs :
        /\ variant = "be"
        /\ req[p].op = "login" /\ req[p].pc = "done" /\ req[p].status = 200
        /\ req[p].body.email = <<" ">> \o EmailAUpper \o <<" ">>
        /\ \E u \in users : u.email = EmailA /\ u.id = req[p].user_id

\* 3 to 30 characters, each a letter, a digit or an underscore
UsernameWellFormed(username) ==
    /\ Len(username) >= 3
    /\ Len(username) <= 30
    /\ \A i \in 1..Len(username) :
          username[i] \in Upper \cup Lower \cup Digits \cup {"_"}

\* C17: in the be variant every row's username has 3 to 30 characters out of
\* [A-Za-z0-9_], and a register call with any other username is answered 400
\* without any access to the table.
C17_UsernameWellFormed ==
    variant = "be" =>
        /\ \A u \in users : UsernameWellFormed(u.username)
        /\ \A p \in Procs :
              (/\ RegisterDone(p)
               /\ "username" \in req[p].body.keys
               /\ IsString(req[p].body.username)
               /\ IsString(req[p].body.email)
               /\ IsString(req[p].body.password)
               /\ ~UsernameWellFormed(req[p].body.username)) =>
                  /\ req[p].status = 400
                  /\ req[p].lookups = 0

\* at least 8 characters, among them an upper-case letter, a lower-case
\* letter and a digit
PasswordStrong(password) ==
    /\ Len(password) >= 8
    /\ {i \in 1..Len(password) : password[i] \in Upper} # {}
    /\ {i \in 1..Len(password) : password[i] \in Lower} # {}
    /\ {i \in 1..Len(password) : password[i] \in Digits} # {}

\* C18: validate_password answers true exactly for the passwords of at least
\* 8 characters holding an upper-case letter, a lower-case letter and a
\* digit, and a be register call of string values whose password is not of
\* that kind is answered 400 and writes no row.
C18_PasswordStrength ==
    \A p \in Procs :
        /\ (req[p].op = "validate_password" /\ req[p].pc = "done") =>
              (req[p].valid <=> PasswordStrong(req[p].body.password))
        /\ (/\ variant = "be" /\ RegisterDone(p)
            /\ "password" \in req[p].body.keys
            /\ IsString(req[p].body.username)
            /\ IsString(req[p].body.email)
            /\ IsString(req[p].body.password)
            /\ ~PasswordStrong(req[p].body.password)) =>
              /\ req[p].status = 400
              /\ req[p].user_id = 0

\* "short1A" in an otherwise acceptable register body was refused for its
\* password
C18_Witness ==
    \E p \in Procs :
        /\ variant = "be" /\ RegisterDone(p)
        /\ req[p].body.password = Short1A
        /\ req[p].status = 400
        /\ req[p].message = "La contrasena debe tener al menos 8 caracteres, una mayuscula, una minuscula y un numero"

\* local@domain.tld and nothing else: a non-empty local part of letters,
\* digits and . _ % + -, an '@', a domain of letters, digits, dots and
\* hyphens, a last '.', and two or more letters up to the end
EmailWellFormed(e) ==
    \E at \in 2..Len(e), dot \in 4..(Len(e) - 2) :
        /\ at + 1 < dot
        /\ e[at] = "@"
        /\ e[dot] = "."
        /\ \A k \in 1..(at - 1) : e[k] \in EmailLocalChars
        /\ \A k \in (at + 1)..(dot - 1) : e[k] \in EmailDomainChars
        /\ \A k \in (dot + 1)..Len(e) : e[k] \in Upper \cup Lower

\* C19: validate_email answers true exactly for the strings of the form
\* local@domain.tld, with nothing before or after.
C19_EmailPattern ==
    \A p \in Procs :
        (req[p].op = "validate_email" /\ req[p].pc = "done") =>
            (req[p].valid <=> EmailWellFormed(req[p].email))

\* req["w1"] is a register call answered 201
Registered201 ==
    /\ req["w1"].op = "register"
    /\ req["w1"].pc = "done"
    /\ req["w1"].status = 201

\* C20: the login that follows a register answered 201, with the email of
\* that register, is answered 200 exactly when its password is the registered
\* one, and the digest stored for the row is not the plaintext password.
C20_LoginIffPassword ==
    [][\A body \in InputLoginBodies :
          (/\ Registered201
           /\ body.email = req["w1"].body.email
           /\ Login("w1", body, now)) =>
              /\ req'["w1"].status = 200 <=>
                     body.password = req["w1"].body.password
              /\ \A u \in users :
                     u.id = req["w1"].user_id =>
                         u.password_hash.digest # req["w1"].body.password]_vars

----------------------------------------------------------------------------
(* Sessions of two clients: claims C21, C22, under SpecSession *)

Accepted(token) == ProfileResult(BearerHeader(token), now).status = 200

----------------------------------------------------------------------------
(* Validation first, and what the routes leave alone: claims C23 - C25 *)

\* what the be register is to refuse, in a body whose values are strings: a
\* key missing, a username of less than three characters, an address that is
\* not well-formed, a weak password
RegisterInvalid(body) ==
    /\ IsString(body.username) /\ IsString(body.email) /\ IsString(body.password)
    /\ \/ ~({"username", "email", "password"} \subseteq body.keys)
       \/ Len(StrStrip(body.username)) < 3
       \/ ~EmailWellFormed(StrLower(StrStrip(body.email)))
       \/ ~PasswordStrong(body.password)

\* worker w1 takes up a request of kind `op` in this step
Takes(op) ==
    /\ req["w1"].pc \in {"idle", "done"}
    /\ req'["w1"].op = op
    /\ req'["w1"].at = now

\* C23: in the be variant a register call with a missing field, a short
\* username, an invalid email or a weak password is answered 400 in the step
\* that validates it, with no lookup in the table, no row written and no token
\* issued; a login call with a missing field is answered 400 with no lookup.
C23_ValidationFirst ==
    [][variant = "be" =>
          /\ (Takes("register") /\ RegisterInvalid(req'["w1"].body)) =>
                /\ req'["w1"].pc = "done"
                /\ req'["w1"].status = 400
                /\ req'["w1"].lookups = 0
                /\ req'["w1"].token = NoToken
                /\ UNCHANGED <<users, issued>>
          /\ (/\ Takes("login")
              /\ ~({"email", "password"} \subseteq req'["w1"].body.keys)) =>
                /\ req'["w1"].status = 400
                /\ req'["w1"].lookups = 0
                /\ req'["w1"].token = NoToken
                /\ UNCHANGED <<users, issued>>]_vars

\* with a row in the table, a be register without its 'password' key was
\* answered 400
C23_Witness ==
    /\ variant = "be"
    /\ users # {}
    /\ RegisterDone("w1")
    /\ "password" \notin req["w1"].body.keys
    /\ req["w1"].status = 400
    /\ req["w1"].lookups = 0

\* no two rows share an id, and the id of a 201 response is the id under
\* which the table holds the row that request created
C24_IdsNow ==
    /\ \A u, v \in users : u.id = v.id => u = v
    /\ \A p \in Procs :
          (RegisterDone(p) /\ req[p].status = 201) =>
              /\ find_by_id(req[p].user.id) # NoUser
              /\ find_by_id(req[p].user.id).email = req[p].email
              /\ user_data(find_by_id(req[p].user.id)) = req[p].user

\* every row stays as it is, and a new row gets an id above all ids in use
C24_IdsKept ==
    /\ users \subseteq users'
    /\ \A u \in users' \ users : \A v \in users : v.id < u.id

\* C24: ids are unique and never reused: at every moment no two rows share
\* an id and the id returned with 201 finds the created row; no step changes
\* or removes a row, and a created row's id is larger than every id in use.
C24_IdsUniqueStable == []C24_IdsNow /\ [][C24_IdsKept]_vars

\* two workers were answered 201, each with an id of its own
C24_Witness ==
    /\ RegisterDone("w1") /\ req["w1"].status = 201
    /\ RegisterDone("w2") /\ req["w2"].status = 201
    /\ req["w1"].user.id # req["w2"].user.id
    /\ Cardinality(users) = 2

\* the step is a login or one of the two steps of a profile request
ReadStep ==
    \/ \E body \in AuthLoginBodies : Login("w1", body, now)
    \/ \E header \in SessionHeaders : ProfileAuth("w2", header)
    \/ ProfileHandle("w2")

\* C25: a login or profile step, whatever it answers, leaves every row of the
\* table, password_hash included, as it was, and no step at all removes or
\* alters a row.
C25_ReadsOnly ==
    [][/\ ReadStep => users' = users
       /\ users \subseteq users']_vars

\* with two rows in the table, a login was answered 401 and a profile request
\* was answered 200
C25_Witness ==
    /\ Cardinality(users) = 2
    /\ req["w1"].op = "login" /\ req["w1"].status = 401
    /\ ProfileDone("w2") /\ req["w2"].status = 200

----------------------------------------------------------------------------
(* The payload of an unverified token: claim C26, under SpecAuth *)

\* C26: in the be variant a token presented as 'Bearer <token>' whose
\* signature is not the server's is answered 401 "Token invalido" whatever
\* its exp, with no lookup in the table and without running the handler, and
\* "Token expirado" is answered only to tokens the server signed.
C26_NoPartialTrust ==
    \A p \in Procs :
        (/\ variant = "be" /\ ProfileDone(p)
         /\ req[p].token # NoToken
         /\ req[p].header = BearerHeader(req[p].token)) =>
            /\ ~SignedByServer(req[p].token) =>
                  /\ req[p].status = 401
                  /\ req[p].message = "Token invalido"
                  /\ req[p].lookups = 0
                  /\ ~req[p].ran
            /\ req[p].message = "Token expirado" => SignedByServer(req[p].token)

\* a token signed with another key and past its exp was answered
\* "Token invalido"
C26_Witness ==
    \E p \in Procs :
        /\ variant = "be" /\ ProfileDone(p)
        /\ req[p].token # NoToken
        /\ req[p].header = BearerHeader(req[p].token)
        /\ req[p].token.alg = "HS256"
        /\ ~SignedByServer(req[p].token)
        /\ req[p].token.payload.hasExp
        /\ req[p].token.payload.exp <= req[p].at
        /\ req[p].message = "Token invalido"

----------------------------------------------------------------------------
(* The two clock readings of generate_jwt_token: claim C27, under SpecClock *)

\* C27: every token of generate_jwt_token has exp - iat equal to
\* JWT_ACCESS_TOKEN_EXPIRES.
C27_ExactTTL ==
    variant = "be" =>
        \A i \in issued :
            /\ i.tok.payload.hasExp
            /\ i.tok.payload.exp - i.tok.payload.iat = JWT_ACCESS_TOKEN_EXPIRES

----------------------------------------------------------------------------
(* Values of the wrong shape: claim C28, under SpecInput *)

\* C28: a be register or login call whose body has all its keys, one of them
\* with a number or a null where a string belongs, is answered 400.
C28_WrongShape400 ==
    \A p \in Procs :
        /\ (/\ variant = "be" /\ RegisterDone(p)
            /\ {"username", "email", "password"} \subseteq req[p].body.keys
            /\ \/ ~IsString(req[p].body.username)
               \/ ~IsString(req[p].body.email)
               \/ ~IsString(req[p].body.password)) =>
              req[p].status = 400
        /\ (/\ variant = "be" /\ req[p].op = "login" /\ req[p].pc = "done"
            /\ {"email", "password"} \subseteq req[p].body.keys
            /\ \/ ~IsString(req[p].body.email)
               \/ ~IsString(req[p].body.password)) =>
              req[p].status = 400

----------------------------------------------------------------------------
(* Whom a token is issued for: claim C29, under SpecClock *)

\* every token handed out names a row of the table, and a login answered 200
\* carries a token for the row of its email, whose stored hash is the hash of
\* the submitted password
C29_TokensNow ==
    /\ \A i \in issued : \E u \in users : u.id = i.tok.payload.user_id
    /\ \A p \in Procs :
          (req[p].op = "login" /\ req[p].pc = "done" /\ req[p].status = 200) =>
              \E u \in users :
                  /\ u.id = req[p].token.payload.user_id
                  /\ u.email = req[p].email
                  /\ u.password_hash =
                         generate_password_hash(req[p].body.password,
                                                u.password_hash.salt)

\* a token that is handed out in a step names a row that was in the table
\* before the step
C29_TokensWhenIssued ==
    \A i \in issued' \ issued : \E u \in users : u.id = i.tok.payload.user_id

\* C29: every token issued by register or login has as subject the id of a
\* row that was in the table before the token was issued, and a login issues
\* a token only for the row whose stored hash the submitted password
\* verifies against.
C29_TokenForCommittedRow == []C29_TokensNow /\ [][C29_TokensWhenIssued]_vars

\* a login with the right password was given a token for the second row of
\* the table
C29_Witness ==
    /\ req["w1"].op = "login" /\ req["w1"].status = 200
    /\ req["w1"].token # NoToken
    /\ req["w1"].token.payload.user_id = 2
    /\ \E i \in issued : i.tok = req["w1"].token

----------------------------------------------------------------------------
(* The database behind the model operations: claim C30, under SpecDb *)

\* C30: under Config, DevelopmentConfig and TestingConfig, once create_app
\* has run init_db, every connection finds table users, no model operation
\* fails for want of it, and a row User.create returned is found under its
\* email and its id by the connections opened afterwards.
C30_TableForEveryConnection ==
    boot.state \in {"configured", "serving"} =>
        /\ get_db_connection.table
        /\ \A p \in Procs :
              req[p].pc = "done" => req[p].message # "no such table: users"
        /\ \A p \in Procs :
              (req[p].op = "User.create" /\ req[p].message = "User") =>
                  \E u \in get_db_connection.rows :
                      u.id = req[p].user_id /\ u.email = req[p].email

====
